---- MODULE Spec2Model ----
(***************************************************************************)
(* Model of rainforest_server.py: the search gateway that forwards a query *)
(* to the Rainforest API (search_rainforest), normalizes the returned      *)
(* items and renders them as an HTML page (render_html, Handler.do_GET).   *)
(*                                                                         *)
(* Python values are tagged records.  A Python string is a sequence of     *)
(* tokens: a token is either one of the characters html.escape treats      *)
(* specially (& < > " ') or a chunk of text holding none of them.          *)
(***************************************************************************)
EXTENDS Integers, Sequences, FiniteSets, TLC

VARIABLES RAINFOREST_API_KEY, op, args, outcome, calls, status, page

vars == <<RAINFOREST_API_KEY, op, args, outcome, calls, status, page>>

(* ---------------------------- bounds ---------------------------------- *)
\* longest raw result list built from SmallItems
MaxRaw == 3
\* largest max_items passed to a direct call of search_rainforest
MaxItemsArg == 2
\* longest injected text (in tokens) handed to render_html
MaxText == 1

(* ------------------------- Python values ------------------------------ *)
PyNone == [t |-> "none"]
\* marks a key that the dict does not hold
Missing == [t |-> "missing"]
Str(s) == [t |-> "str", s |-> s]
Num(n) == [t |-> "num", n |-> n]
Dict(d) == [t |-> "dict", d |-> d]
List(l) == [t |-> "list", l |-> l]
Raise(exc) == [t |-> "raise", exc |-> exc]
EmptyStr == Str(<< >>)

IsStr(v) == v.t = "str"
IsDict(v) == v.t = "dict"
IsList(v) == v.t = "list"
IsNum(v) == v.t = "num"
IsRaise(v) == v.t = "raise"

\* Python truth value of v
Truthy(v) ==
  CASE v.t = "none" -> FALSE
    [] v.t = "str" -> v.s # << >>
    [] v.t = "num" -> v.n # 0
    [] v.t = "list" -> v.l # << >>
    [] v.t = "dict" -> \E k \in DOMAIN v.d : v.d[k] # Missing
    [] OTHER -> FALSE

\* a or b
Or(a, b) == IF Truthy(a) THEN a ELSE b

\* dict.get(k): None when the key is absent
DictGet(v, k) ==
  IF k \in DOMAIN v.d /\ v.d[k] # Missing THEN v.d[k] ELSE PyNone

\* dict.get(k, default)
DictGetDefault(v, k, default) ==
  IF k \in DOMAIN v.d /\ v.d[k] # Missing THEN v.d[k] ELSE default

\* str(v) and the {v} of an f-string, as tokens
PyStr(v) ==
  CASE v.t = "str" -> v.s
    [] v.t = "num" -> <<ToString(v.n)>>
    [] v.t = "none" -> <<"None">>
    [] OTHER -> <<"repr">>

\* seq[:k] with Python's meaning of a negative k
SliceTo(seq, k) ==
  LET n == Len(seq)
      hi == IF k >= 0 THEN (IF k < n THEN k ELSE n)
                      ELSE (IF n + k > 0 THEN n + k ELSE 0)
  IN SubSeq(seq, 1, hi)

(* --------------------------- configuration ---------------------------- *)
DEFAULT_QUERY == <<"latest xbox">>
DefaultMaxItems == 10
Keys == {PyNone, EmptyStr, Str(<<"k">>)}

(* ------------------- search_rainforest: the fetch step ----------------- *)
\* What the network and the upstream server do to the one urlopen call.
Malformed == [t |-> "malformed"]

NetFailures ==
  { [k |-> "refused"], [k |-> "dns"], [k |-> "connect_timeout"],
    [k |-> "read_timeout"] }

StatusReplies ==
  { [k |-> "status", code |-> c, reason |-> r] :
      c \in {404, 500}, r \in { <<"Not Found">>, <<"<", "b", ">">> } }

\* The exception urlopen / resp.read / json.loads raises for an upstream
\* event, or the parsed JSON value.  A timeout while connecting is wrapped
\* in URLError by urllib; a timeout while waiting for or reading the
\* response is raised as a bare TimeoutError.
Fetch(ev) ==
  CASE ev.k = "status" ->
         [t |-> "raise", exc |-> "HTTPError", code |-> ev.code, reason |-> ev.reason]
    [] ev.k = "refused" ->
         [t |-> "raise", exc |-> "URLError",
          reason |-> <<"[Errno 111] Connection refused">>]
    [] ev.k = "dns" ->
         [t |-> "raise", exc |-> "URLError",
          reason |-> <<"[Errno -2] Name or service not known">>]
    [] ev.k = "connect_timeout" ->
         [t |-> "raise", exc |-> "URLError", reason |-> <<"timed out">>]
    [] ev.k = "read_timeout" ->
         [t |-> "raise", exc |-> "TimeoutError", reason |-> <<"timed out">>]
    [] ev.k = "body" /\ ev.json = Malformed ->
         [t |-> "raise", exc |-> "JSONDecodeError",
          reason |-> <<"Expecting value: line 1 column 1 (char 0)">>]
    [] OTHER -> ev.json

\* isinstance(e, cls) for the exception classes involved:
\* HTTPError < URLError < OSError < Exception, TimeoutError < OSError,
\* JSONDecodeError < ValueError < Exception.
IsInstance(e, cls) ==
  CASE cls = "HTTPError" -> e.exc = "HTTPError"
    [] cls = "URLError" -> e.exc \in {"HTTPError", "URLError"}
    [] OTHER -> TRUE

\* an outcome is the dict {"error": ..., "results": [...]}; t is the model's tag
ErrorOutcomeNoResults(msg) == [t |-> "outcome", error |-> Str(msg)]

ErrorOutcome(msg) == [t |-> "outcome", error |-> Str(msg), results |-> << >>]

\* the except clauses of lines 71-76, tried in the order written
ExceptClauses(e) ==
  IF IsInstance(e, "HTTPError")
    THEN ErrorOutcome(<<"HTTPError ", ToString(e.code), ": ">> \o e.reason)
    ELSE IF IsInstance(e, "URLError")
      THEN ErrorOutcome(<<"Network error: ">> \o e.reason)
      ELSE ErrorOutcome(<<"Unexpected error: ">> \o e.reason)

(* ------------------- search_rainforest: normalization ------------------ *)
NoTitle == <<"(no title)">>
DpPrefix == <<"https://www.amazon.com/dp/">>

\* lines 86-91: price_raw, or a raise when prices[0] has no .get
PriceRawFirstOnly(item) ==
  LET price == DictGet(item, "price")
      prices == DictGet(item, "prices")
  IN IF IsDict(price) THEN DictGet(price, "raw")
     ELSE IF IsList(prices) /\ prices.l # << >>
       THEN (IF IsDict(prices.l[1]) THEN DictGet(prices.l[1], "raw")
             ELSE Raise("AttributeError"))
       ELSE PyNone

PriceRaw(item) ==
  LET price == DictGet(item, "price")
      prices == DictGet(item, "prices")
      first == IF IsDict(price) THEN DictGet(price, "raw") ELSE PyNone
  IN IF ~Truthy(first) /\ IsList(prices) /\ prices.l # << >>
       THEN (IF IsDict(prices.l[1]) THEN DictGet(prices.l[1], "raw")
             ELSE Raise("AttributeError"))
       ELSE first

\* lines 81-84: the fields read with "or"
TitleOf(item) == Or(DictGet(item, "title"), Str(NoTitle))
AsinOf(item) == Or(DictGet(item, "asin"), EmptyStr)
ImageOf(item) == Or(DictGet(item, "image"), EmptyStr)

LinkNoSynthesis(item) == Or(DictGet(item, "link"), EmptyStr)

LinkOf(item) ==
  Or(DictGet(item, "link"),
     IF Truthy(AsinOf(item)) THEN Str(DpPrefix \o PyStr(AsinOf(item)))
                             ELSE EmptyStr)

\* the body of the loop of lines 80-103 for one raw item
Normalize(item) ==
  IF ~IsDict(item) THEN Raise("AttributeError")
  ELSE LET price_raw == PriceRaw(item)
       IN IF IsRaise(price_raw) THEN price_raw
          ELSE [t |-> "record",
                title |-> TitleOf(item),
                asin |-> AsinOf(item),
                link |-> LinkOf(item),
                image |-> ImageOf(item),
                price |-> Or(price_raw, EmptyStr),
                rating |-> DictGet(item, "rating"),
                ratings_total |-> DictGet(item, "ratings_total")]

\* raw_results[:max_items]
TruncateOff(raw, max_items) == raw

Truncate(raw, max_items) == SliceTo(raw, max_items)

\* lines 78-105: from the parsed JSON to the outcome, or a raise
Clean(data, max_items) ==
  IF ~IsDict(data) THEN Raise("AttributeError")
  ELSE LET raw_results == DictGetDefault(data, "search_results", List(<< >>))
       IN IF ~IsList(raw_results) THEN Raise("TypeError")
          ELSE LET taken == Truncate(raw_results.l, max_items)
                   cleaned == [i \in 1..Len(taken) |-> Normalize(taken[i])]
               IN IF \E i \in 1..Len(taken) : IsRaise(cleaned[i])
                    THEN Raise("AttributeError")
                    ELSE [t |-> "outcome", results |-> cleaned, error |-> PyNone]

\* line 53: not RAINFOREST_API_KEY
KeyIsNone(key) == key = PyNone

KeyMissing(key) == ~Truthy(key)

MissingKeyOutcome ==
  ErrorOutcome(<<"Missing RAINFOREST_API_KEY environment variable.">>)

\* number of urlopen calls search_rainforest makes with key configured
UrlopenRetry(fetched) == IF IsRaise(fetched) THEN 2 ELSE 1

UrlopenCalls(fetched) == 1

\* search_rainforest(query, max_items) with credential key, the upstream
\* behaving as ev: what it returns (or raises) and the outbound calls made
search_rainforest(key, query, max_items, ev) ==
  IF KeyMissing(key)
    THEN [ret |-> MissingKeyOutcome, calls |-> 0]
    ELSE LET fetched == Fetch(ev)
         IN [ret |-> IF IsRaise(fetched) THEN ExceptClauses(fetched)
                     ELSE Clean(fetched, max_items),
             calls |-> UrlopenCalls(fetched)]

(* ------------------------------ render_html ---------------------------- *)
AMAZON_DOMAIN == <<"amazon.com">>

RECURSIVE Replace(_, _, _)
\* s.replace(ch, rep) on a token string; rep is the replacement's tokens
Replace(s, ch, rep) ==
  IF s = << >> THEN << >>
  ELSE (IF Head(s) = ch THEN rep ELSE <<Head(s)>>) \o Replace(Tail(s), ch, rep)

\* html.escape(s, quote=False)
EscapeNoQuote(s) ==
  Replace(Replace(Replace(s, "&", <<"&", "amp;">>),
                  "<", <<"&", "lt;">>),
          ">", <<"&", "gt;">>)

\* html.escape(s): & first, then < and >, then the two quotes
Escape(s) ==
  Replace(Replace(Replace(Replace(Replace(s, "&", <<"&", "amp;">>),
                                  "<", <<"&", "lt;">>),
                          ">", <<"&", "gt;">>),
                  "\"", <<"&", "quot;">>),
          "'", <<"&", "#x27;">>)

\* the literal chunks of the template
HeadOpen == "<!doctype html><html><head>..</head><body><header><form><input name=\"q\" value=\""
HeadClose == "\" /><button>Search</button></form></header><div class=\"wrap\">"
BannerOpen == "<div class=\"error\">"
BannerClose == "</div>"
Notice == "<p class=\"meta\">No results found.</p>"
GridOpen == "<div class=\"grid\">"
GridClose == "</div>"
TailOpen == "</div><footer>Powered by Rainforest API - Domain: "
TailClose == "</footer></body></html>"

\* lines 173-177: shown only for a numeric rating and an integer total
\* (the model's numbers are integers below 1000: one decimal, no separator)
RatingText(r) ==
  IF IsNum(r.rating) /\ IsNum(r.ratings_total)
    THEN <<"<span>* ", ToString(r.rating.n), ".0", "</span> <span>(",
           ToString(r.ratings_total.n), ")</span>">>
    ELSE << >>

\* lines 166-191: one card, or a raise when html.escape gets a non-string
Card(r) ==
  LET title == Escape(PyStr(r.title))
      asin == Escape(PyStr(r.asin))
      link == Or(r.link, Str(<<"#">>))
      image == Or(r.image, EmptyStr)
      price == Escape(PyStr(r.price))
      img_html == IF Truthy(image)
                    THEN <<"<img src=\"">> \o Escape(image.s) \o <<"\" alt=\"">>
                         \o title \o <<"\">">>
                    ELSE <<"<div style=\"height:1px\"></div>">>
  IN IF ~IsStr(link) \/ ~IsStr(image) THEN Raise("AttributeError")
     ELSE [t |-> "bytes",
           b |-> <<"<a class=\"card\" href=\"">> \o Escape(link.s)
                 \o <<"\" target=\"_blank\"><div class=\"imgwrap\">">> \o img_html
                 \o <<"</div><div class=\"title\">">> \o title
                 \o <<"</div><div class=\"meta\"><span class=\"price\">">> \o price
                 \o <<"</span><span>ASIN: ">> \o asin \o <<"</span>">>
                 \o RatingText(r) \o <<"</div></a>">>]

RECURSIVE Cards(_)
\* the cards of results in order, concatenated
Cards(results) ==
  IF results = << >> THEN << >>
  ELSE Card(Head(results)).b \o Cards(Tail(results))

\* lines 157-192 with the notice as the branch of "no error"
BodyPartsElif(results, error) ==
  IF Truthy(error) THEN <<BannerOpen>> \o Escape(error.s) \o <<BannerClose>>
  ELSE IF results = << >> THEN <<Notice>>
  ELSE <<GridOpen>> \o Cards(results) \o <<GridClose>>

\* lines 157-192: the banner, then the notice or the grid
BodyParts(results, error) ==
  (IF Truthy(error) THEN <<BannerOpen>> \o Escape(error.s) \o <<BannerClose>>
                    ELSE << >>)
  \o (IF results = << >> THEN <<Notice>>
      ELSE <<GridOpen>> \o Cards(results) \o <<GridClose>>)

\* render_html(query, results, error): the document's tokens, or a raise
render_html(query, results, error) ==
  IF \E i \in 1..Len(results) : IsRaise(Card(results[i]))
    THEN Raise("AttributeError")
    ELSE [t |-> "bytes",
          b |-> <<HeadOpen>> \o Escape(query) \o <<HeadClose>>
                \o BodyParts(results, error)
                \o <<TailOpen>> \o Escape(AMAZON_DOMAIN) \o <<TailClose>>]

(* ------------------------------ Handler.do_GET ------------------------- *)
RECURSIVE StripLeft(_)
StripLeft(s) ==
  IF s # << >> /\ Head(s) = " " THEN StripLeft(Tail(s)) ELSE s

RECURSIVE StripRight(_)
StripRight(s) ==
  IF s # << >> /\ s[Len(s)] = " " THEN StripRight(SubSeq(s, 1, Len(s) - 1)) ELSE s

\* str.strip()
Strip(s) == StripRight(StripLeft(s))

\* line 218: qs.get("q", [DEFAULT_QUERY])[0].strip() or DEFAULT_QUERY
EffectiveQuery(path) ==
  LET q == IF path.q = Missing THEN DEFAULT_QUERY ELSE path.q.s
  IN IF Strip(q) = << >> THEN DEFAULT_QUERY ELSE Strip(q)

\* payload.get("results", []) of line 221
PayloadResults(payload) ==
  IF "results" \in DOMAIN payload THEN payload.results ELSE << >>

\* payload.get("error") of line 221
PayloadError(payload) ==
  IF "error" \in DOMAIN payload THEN payload.error ELSE PyNone

NotCalled == [t |-> "notcalled"]
NoPage == [t |-> "nopage"]

(* ------------------------------- inputs -------------------------------- *)
Item(title, asin, link, image, price, prices, rating, ratings_total) ==
  Dict([title |-> title, asin |-> asin, link |-> link, image |-> image,
        price |-> price, prices |-> prices, rating |-> rating,
        ratings_total |-> ratings_total])

PriceObj(raw) == Dict([raw |-> raw])

TitleVals == {Missing, EmptyStr, Str(<<"T">>)}
AsinVals == {Missing, EmptyStr, Str(<<"B000X">>)}
LinkVals == {Missing, EmptyStr, Str(<<"https://a.co/x">>)}
ImageVals == {Missing, Str(<<"https://img/x.jpg">>)}
PriceVals ==
  {Missing, PriceObj(Missing), PriceObj(EmptyStr), PriceObj(Str(<<"$10">>)),
   Str(<<"$3">>)}
PricesVals ==
  {Missing, List(<< >>), List(<<PriceObj(Str(<<"$5">>))>>),
   List(<<PriceObj(Missing), PriceObj(Str(<<"$7">>))>>)}
RatingVals ==
  {<<Missing, Missing>>, <<Num(4), Missing>>, <<Num(4), Num(120)>>}

\* raw items whose present fields have the shapes the API documents
ItemFull ==
  { Item(a, b, c, d, e, f, g[1], g[2]) :
      a \in TitleVals, b \in AsinVals, c \in LinkVals, d \in ImageVals,
      e \in PriceVals, f \in PricesVals, g \in RatingVals }

EmptyItem ==
  Item(Missing, Missing, Missing, Missing, Missing, Missing, Missing, Missing)

SmallItems ==
  { EmptyItem,
    Item(Str(<<"<", "script", ">">>), Str(<<"B0", "\"">>), Str(<<"\"", ">", "x">>),
         Str(<<"'", "<">>), PriceObj(Str(<<"&", "<">>)), Missing, Num(5), Num(7)),
    Item(Str(<<"T2">>), Str(<<"B2">>), Missing, Missing, Missing,
         List(<<PriceObj(Str(<<"$5">>))>>), Missing, Missing) }

SeqsUpTo(S, n) == UNION { [1..m -> S] : m \in 0..n }

\* raw items and lists of a shape the code does not expect
BadLists ==
  { <<Str(<<"x">>)>>,
    <<Item(Missing, Missing, Missing, Missing, Missing, List(<<Str(<<"$5">>)>>),
           Missing, Missing)>>,
    <<Item(Missing, Missing, Num(5), Missing, Missing, Missing, Missing, Missing)>> }

GoodLists == SeqsUpTo(SmallItems, MaxRaw) \cup { <<it>> : it \in ItemFull }

GoodBodies ==
  { Dict([search_results |-> Missing]) }
  \cup { Dict([search_results |-> List(l)]) : l \in GoodLists }

BadBodies ==
  { Malformed, List(<< >>), Dict([search_results |-> PyNone]) }
  \cup { Dict([search_results |-> List(l)]) : l \in BadLists }

Events ==
  NetFailures \cup StatusReplies
  \cup { [k |-> "body", json |-> j] : j \in GoodBodies \cup BadBodies }

Paths ==
  { [healthz |-> TRUE, q |-> Missing],
    [healthz |-> FALSE, q |-> Missing],
    [healthz |-> FALSE, q |-> Str(<<" ", " ">>)],
    [healthz |-> FALSE, q |-> Str(<<" ", "<", "x", "\"", " ">>)] }

Alphabet == {"a", "&", "<", ">", "\"", "'"}
Texts == UNION { [1..m -> Alphabet] : m \in 1..MaxText }
Plain == <<"a">>

RenderRecord(title, asin, link, image, price, rating) ==
  [t |-> "record", title |-> title, asin |-> asin, link |-> link,
   image |-> image, price |-> price, rating |-> rating[1],
   ratings_total |-> rating[2]]

\* records in which any subset of the text fields carries the text x
RenderRecords(x) ==
  { RenderRecord(a, b, c, d, e, <<PyNone, PyNone>>) :
      a \in {Str(Plain), Str(x)}, b \in {Str(Plain), Str(x)},
      c \in {EmptyStr, Str(x)}, d \in {EmptyStr, Str(x)},
      e \in {Str(Plain), Str(x)} }

PlainRecord ==
  RenderRecord(Str(Plain), Str(Plain), EmptyStr, EmptyStr, Str(Plain),
               <<Num(4), Num(120)>>)

RenderResults(x) ==
  { << >> } \cup { <<r>> : r \in RenderRecords(x) }
  \cup { <<r, PlainRecord>> : r \in RenderRecords(x) }

(* ------------------------------ state machine -------------------------- *)
Init ==
  /\ RAINFOREST_API_KEY \in Keys
  /\ op = "start"
  /\ args = [none |-> TRUE]
  /\ outcome = NotCalled
  /\ calls = 0
  /\ status = 0
  /\ page = NoPage

\* Handler.do_GET for one request; ev is what the upstream does if called.
\* A raise that leaves do_GET sends no response (status 0).
DoGET(path, ev) ==
  /\ op = "start"
  /\ op' = "do_GET"
  /\ args' = [path |-> path, ev |-> ev]
  /\ IF path.healthz
       THEN /\ status' = 200
            /\ page' = [t |-> "bytes", b |-> <<"ok">>]
            /\ outcome' = NotCalled
            /\ calls' = 0
       ELSE LET query == EffectiveQuery(path)
                sr == search_rainforest(RAINFOREST_API_KEY, query,
                                        DefaultMaxItems, ev)
                html == IF IsRaise(sr.ret) THEN sr.ret
                        ELSE render_html(query, PayloadResults(sr.ret),
                                         PayloadError(sr.ret))
            IN /\ outcome' = sr.ret
               /\ calls' = sr.calls
               /\ page' = html
               /\ status' = IF IsRaise(html) THEN 0 ELSE 200
  /\ UNCHANGED RAINFOREST_API_KEY

\* a direct call search_rainforest(query, max_items)
CallSearch(query, max_items, ev) ==
  LET sr == search_rainforest(RAINFOREST_API_KEY, query, max_items, ev)
  IN /\ op = "start"
     /\ op' = "search_rainforest"
     /\ args' = [query |-> query, max_items |-> max_items, ev |-> ev]
     /\ outcome' = sr.ret
     /\ calls' = sr.calls
     /\ status' = 0
     /\ page' = NoPage
     /\ UNCHANGED RAINFOREST_API_KEY

\* a direct call render_html(query, results, error)
CallRender(query, results, error) ==
  /\ op = "start"
  /\ op' = "render_html"
  /\ args' = [query |-> query, results |-> results, error |-> error]
  /\ page' = render_html(query, results, error)
  /\ outcome' = NotCalled
  /\ calls' = 0
  /\ status' = 0
  /\ UNCHANGED RAINFOREST_API_KEY

\* the request is over: its values are discarded and the server (or the
\* caller) is ready for the next one; the configuration stays as loaded
Return ==
  /\ op # "start"
  /\ op' = "start"
  /\ args' = [none |-> TRUE]
  /\ outcome' = NotCalled
  /\ calls' = 0
  /\ status' = 0
  /\ page' = NoPage
  /\ UNCHANGED RAINFOREST_API_KEY

Idle == op = "start"

\* an inbound GET, with what the upstream does to the outbound call
HandleRequest == Idle /\ \E path \in Paths, ev \in Events : DoGET(path, ev)

SearchDirect ==
  Idle /\ \E max_items \in -1..MaxItemsArg, ev \in Events :
            CallSearch(DEFAULT_QUERY, max_items, ev)

RenderDirect ==
  Idle /\ \E x \in Texts :
            \E query \in {Plain, x}, error \in {PyNone, EmptyStr, Str(x)},
               results \in RenderResults(x) : CallRender(query, results, error)

Next == Return \/ HandleRequest \/ SearchDirect \/ RenderDirect

Spec == Init /\ [][Next]_vars

(* ------------------------------- properties ---------------------------- *)
IsGet == op = "do_GET" /\ ~args.path.healthz
IsSearch == op = "search_rainforest"
\* search_rainforest ran in the last operation
Searched == IsGet \/ IsSearch
KeySet == Truthy(RAINFOREST_API_KEY)
MaxItemsUsed == IF IsSearch THEN args.max_items ELSE DefaultMaxItems
\* search_rainforest returned the results of a fetch that succeeded
Success == Searched /\ KeySet /\ outcome.t = "outcome" /\ outcome.error = PyNone
\* the raw result list of the upstream body (absent: empty)
RawList ==
  IF args.ev.json.d.search_results = Missing THEN << >>
  ELSE args.ev.json.d.search_results.l
Min(a, b) == IF a < b THEN a ELSE b

\* render_html returned a document
Rendered == (op = "render_html" \/ IsGet) /\ page.t = "bytes"
RenderedError == IF op = "render_html" THEN args.error ELSE PayloadError(outcome)
RenderedResults ==
  IF op = "render_html" THEN args.results ELSE PayloadResults(outcome)
Has(tok) == \E i \in 1..Len(page.b) : page.b[i] = tok

\* C1: every GET to a path not under /healthz ends by sending status 200
\* with the rendered document, whatever the fetch step met.
C1_AlwaysResponds200 == IsGet => (status = 200 /\ page.t = "bytes")

\* C2: with the credential absent (unset or empty) search_rainforest returns
\* the empty result list with the fixed missing-credential error and makes
\* no outbound call.
C2_MissingCredential ==
  (Searched /\ ~KeySet) =>
    /\ outcome = MissingKeyOutcome
    /\ outcome.results = << >>
    /\ outcome.error # PyNone
    /\ calls = 0

C2_Witness ==
  /\ IsSearch /\ RAINFOREST_API_KEY = EmptyStr
  /\ args.max_items = MaxItemsArg /\ args.ev.k = "body"
  /\ outcome = MissingKeyOutcome /\ calls = 0

\* C3: with the credential configured one search issues exactly one outbound
\* call, whether the call succeeds or fails.
C3_ExactlyOneCall == (Searched /\ KeySet) => calls = 1

C3_Witness ==
  /\ IsGet /\ KeySet /\ args.ev.k = "read_timeout"
  /\ outcome.t = "outcome" /\ outcome.error # PyNone /\ calls = 1

\* C4: a returned outcome has the fields error and results and is either
\* (null error, list of normalized records) or (error string, empty list).
C4_OutcomeShape ==
  (Searched /\ outcome.t = "outcome") =>
    /\ {"error", "results"} \subseteq DOMAIN outcome
    /\ \/ /\ outcome.error = PyNone
          /\ \A i \in 1..Len(outcome.results) : outcome.results[i].t = "record"
       \/ /\ IsStr(outcome.error)
          /\ outcome.results = << >>

C4_Witness ==
  /\ IsSearch /\ KeySet /\ args.ev.k = "status"
  /\ outcome.t = "outcome" /\ IsStr(outcome.error) /\ outcome.results = << >>

\* C5: a successful fetch of n raw items with max_items >= 0 returns
\* min(n, max_items) records, the i-th the normalization of the i-th item.
C5_Truncation ==
  (Success /\ MaxItemsUsed >= 0) =>
    /\ Len(outcome.results) = Min(Len(RawList), MaxItemsUsed)
    /\ Len(outcome.results) <= MaxItemsUsed
    /\ \A i \in 1..Len(outcome.results) : outcome.results[i] = Normalize(RawList[i])

C5_Witness ==
  /\ IsSearch /\ Success
  /\ args.max_items > 0 /\ Len(RawList) > args.max_items
  /\ Len(outcome.results) = args.max_items

\* the price the claim C6 gives an item
ClaimedPrice(item) ==
  LET price == DictGet(item, "price")
      prices == DictGet(item, "prices")
  IN IF IsDict(price) THEN Or(DictGet(price, "raw"), EmptyStr)
     ELSE IF IsList(prices) /\ prices.l # << >>
       THEN Or(DictGet(prices.l[1], "raw"), EmptyStr)
       ELSE EmptyStr

\* C6 as claimed: a price object always decides the price, before the
\* prices list; the list is used only when price is not an object.
C6_PriceObjectAlwaysWins ==
  Success =>
    \A i \in 1..Len(outcome.results) :
      outcome.results[i].price = ClaimedPrice(RawList[i])

AmendedPrice(item) ==
  LET price == DictGet(item, "price")
      prices == DictGet(item, "prices")
  IN IF IsDict(price) /\ Truthy(DictGet(price, "raw")) THEN DictGet(price, "raw")
     ELSE IF IsList(prices) /\ prices.l # << >>
       THEN Or(DictGet(prices.l[1], "raw"), EmptyStr)
       ELSE EmptyStr

\* C6 amended: a price object decides the price when its nested raw is
\* non-empty; otherwise (price no object, or its raw absent or empty) the
\* nested raw of the first entry of a non-empty prices list is used;
\* otherwise the price is the empty string.
C6_PriceResolution ==
  Success =>
    \A i \in 1..Len(outcome.results) :
      outcome.results[i].price = AmendedPrice(RawList[i])

C6_Witness ==
  /\ IsSearch /\ Success /\ Len(outcome.results) = 1
  /\ RawList[1].d.price = PriceObj(EmptyStr)
  /\ RawList[1].d.prices = List(<<PriceObj(Str(<<"$5">>))>>)
  /\ outcome.results[1].price = Str(<<"$5">>)

\* the defaults of the absent fields other than link
AbsentDefaults(item, r) ==
  /\ item.d.title = Missing => r.title = Str(NoTitle)
  /\ item.d.asin = Missing => r.asin = EmptyStr
  /\ item.d.image = Missing => r.image = EmptyStr
  /\ (item.d.price = Missing /\ item.d.prices = Missing) => r.price = EmptyStr
  /\ item.d.rating = Missing => r.rating = PyNone
  /\ item.d.ratings_total = Missing => r.ratings_total = PyNone

SynthesizedLink(r) ==
  IF r.asin # EmptyStr THEN Str(DpPrefix \o r.asin.s) ELSE EmptyStr

\* the upstream sent a body of the expected shape and the call took its items
GoodBodyTaken ==
  /\ Searched /\ KeySet /\ MaxItemsUsed >= 0
  /\ args.ev.k = "body" /\ args.ev.json \in GoodBodies

C8_NoticeOnlyWithoutError ==
  Rendered =>
    /\ Has(BannerOpen) <=> (RenderedError # PyNone)
    /\ Has(Notice) <=> (RenderedResults = << >> /\ RenderedError = PyNone)
    /\ Has(GridOpen) <=> (RenderedResults # << >>)
    /\ ~(Has(Notice) /\ Has(BannerOpen))

\* C8 amended: banner iff error is non-null and non-empty; notice iff
\* results is empty, with or without an error; grid iff results is non-empty.
C8_BodySelection ==
  Rendered =>
    /\ Has(BannerOpen) <=> Truthy(RenderedError)
    /\ Has(Notice) <=> (RenderedResults = << >>)
    /\ Has(GridOpen) <=> (RenderedResults # << >>)

C8_Witness ==
  /\ Rendered /\ Truthy(RenderedError) /\ RenderedResults = << >>
  /\ Has(BannerOpen) /\ Has(Notice) /\ ~Has(GridOpen)

\* C9: no '<', '>' or '"' of query, error, title, asin, price, link or image
\* reaches the rendered document unescaped.
C9_Escaped ==
  Rendered => \A i \in 1..Len(page.b) : page.b[i] \notin {"<", ">", "\""}

C9_Witness ==
  /\ op = "render_html" /\ page.t = "bytes"
  /\ args.results # << >>
  /\ args.results[1].title = Str(<<"<">>)
  /\ args.results[1].link = Str(<<"<">>)
  /\ args.query = <<"<">>
  /\ \E i \in 1..(Len(page.b) - 1) : page.b[i] = "&" /\ page.b[i + 1] = "lt;"

\* C10: an upstream error status is reported as an HTTP error with code and
\* reason; a connection failure, DNS failure or timeout as a network error
\* with its reason; malformed JSON as an unexpected error.
C10_ErrorClasses ==
  (Searched /\ KeySet /\ outcome.t = "outcome" /\ outcome.error # PyNone) =>
    LET ev == args.ev
        msg == outcome.error.s
    IN /\ ev.k = "status" =>
            msg = <<"HTTPError ", ToString(ev.code), ": ">> \o ev.reason
       /\ ev.k \in {"refused", "dns", "connect_timeout", "read_timeout"} =>
            (Head(msg) = "Network error: " /\ Len(msg) > 1)
       /\ (ev.k = "body" /\ ev.json = Malformed) =>
            (Head(msg) = "Unexpected error: " /\ Len(msg) > 1)

====
